---- MODULE Spec2Model ----
(***************************************************************************)
(* Model of homeassistant/components/google_cloud/tts.py: the Google Cloud *)
(* text-to-speech provider.  Setup (async_get_engine), the voice query     *)
(* (async_get_supported_voices) and synthesis (async_get_tts_audio) are    *)
(* actions; the voluptuous schemas are operators.                          *)
(*                                                                         *)
(* Python strings are sequences of one-character strings, so that          *)
(* str.upper, str.lower, str.startswith, slicing and the regular           *)
(* expressions are computed character by character.  Floats are in         *)
(* hundredths (1.0 is 100) with a class for nan and the infinities.        *)
(***************************************************************************)
EXTENDS FiniteSets, Integers, Sequences, TLC

----------------------------------------------------------------------------
(* Characters and strings *)

LowerAlpha == <<"a","b","c","d","e","f","g","h","i","j","k","l","m","n","o","p","q","r","s","t","u","v","w","x","y","z">>

UpperAlpha == <<"A","B","C","D","E","F","G","H","I","J","K","L","M","N","O","P","Q","R","S","T","U","V","W","X","Y","Z">>

Digits == <<"0","1","2","3","4","5","6","7","8","9">>

Range(s) == {s[i] : i \in 1..Len(s)}

IndexOf(c, s) == CHOOSE i \in 1..Len(s) : s[i] = c

LowerSet == Range(LowerAlpha)

UpperSet == Range(UpperAlpha)

DigitSet == Range(Digits)

\* the letters' other case, and the digits' values
ToUpper == [c \in LowerSet |-> UpperAlpha[IndexOf(c, LowerAlpha)]]

ToLower == [c \in UpperSet |-> LowerAlpha[IndexOf(c, UpperAlpha)]]

DigitValue == [c \in DigitSet |-> IndexOf(c, Digits) - 1]

\* str.upper() and str.lower(), character by character
UpperChar(c) == IF c \in LowerSet THEN ToUpper[c] ELSE c

LowerChar(c) == IF c \in UpperSet THEN ToLower[c] ELSE c

StrUpper(s) == [i \in 1..Len(s) |-> UpperChar(s[i])]

StrLower(s) == [i \in 1..Len(s) |-> LowerChar(s[i])]

\* s.startswith(p)
StartsWith(s, p) == Len(p) <= Len(s) /\ SubSeq(s, 1, Len(p)) = p

\* s[:n]
Slice(s, n) == SubSeq(s, 1, IF Len(s) < n THEN Len(s) ELSE n)

----------------------------------------------------------------------------
(* Python values that reach the schemas *)

PyStr(s) == [k |-> "str", s |-> s]

PyList(l) == [k |-> "list", l |-> l]

PyNone == [k |-> "None"]

\* a float: finite (v in hundredths), nan, inf or -inf
Fin(v) == [cls |-> "fin", v |-> v]

NaN == [cls |-> "nan", v |-> 0]

PosInf == [cls |-> "inf", v |-> 0]

NegInf == [cls |-> "ninf", v |-> 0]

PyFloat(f) == [k |-> "float", f |-> f]

\* a < b and a > b on floats; every comparison with nan is false
FloatLess(a, b) ==
    /\ a.cls # "nan" /\ b.cls # "nan"
    /\ \/ a.cls = "ninf" /\ b.cls # "ninf"
       \/ a.cls # "inf" /\ b.cls = "inf"
       \/ a.cls = "fin" /\ b.cls = "fin" /\ a.v < b.v

FloatGreater(a, b) == FloatLess(b, a)

\* the result of a validator: the validated value, or vol.Invalid raised
Valid(v) == [ok |-> TRUE, v |-> v]

Invalid == [ok |-> FALSE, v |-> <<>>]

----------------------------------------------------------------------------
(* Module constants, tts.py lines 23-78 *)

CONF_KEY_FILE == "key_file"
CONF_LANG == "language"
CONF_GENDER == "gender"
CONF_VOICE == "voice"
CONF_ENCODING == "encoding"
CONF_SPEED == "speed"
CONF_PITCH == "pitch"
CONF_GAIN == "gain"
CONF_PROFILES == "profiles"
CONF_TEXT_TYPE == "text_type"

DEFAULT_LANG == <<"e","n","-","U","S">>

DEFAULT_GENDER == <<"N","E","U","T","R","A","L">>

DEFAULT_VOICE == <<>>

DEFAULT_ENCODING == <<"M","P","3">>

MIN_SPEED == 25
MAX_SPEED == 400
DEFAULT_SPEED == 100

MIN_PITCH == -2000
MAX_PITCH == 2000
DEFAULT_PITCH == 0

MIN_GAIN == -9600
MAX_GAIN == 1600
DEFAULT_GAIN == 0

SUPPORTED_TEXT_TYPES == << <<"t","e","x","t">>, <<"s","s","m","l">> >>

DEFAULT_TEXT_TYPE == <<"t","e","x","t">>

SUPPORTED_PROFILES ==
    << <<"w","e","a","r","a","b","l","e","-","c","l","a","s","s","-","d","e","v","i","c","e">>,
       <<"h","a","n","d","s","e","t","-","c","l","a","s","s","-","d","e","v","i","c","e">>,
       <<"h","e","a","d","p","h","o","n","e","-","c","l","a","s","s","-","d","e","v","i","c","e">>,
       <<"s","m","a","l","l","-","b","l","u","e","t","o","o","t","h","-","s","p","e","a","k","e","r","-","c","l","a","s","s","-","d","e","v","i","c","e">>,
       <<"m","e","d","i","u","m","-","b","l","u","e","t","o","o","t","h","-","s","p","e","a","k","e","r","-","c","l","a","s","s","-","d","e","v","i","c","e">>,
       <<"l","a","r","g","e","-","h","o","m","e","-","e","n","t","e","r","t","a","i","n","m","e","n","t","-","c","l","a","s","s","-","d","e","v","i","c","e">>,
       <<"l","a","r","g","e","-","a","u","t","o","m","o","t","i","v","e","-","c","l","a","s","s","-","d","e","v","i","c","e">>,
       <<"t","e","l","e","p","h","o","n","y","-","c","l","a","s","s","-","a","p","p","l","i","c","a","t","i","o","n">> >>

SUPPORTED_OPTIONS ==
    << CONF_VOICE, CONF_GENDER, CONF_ENCODING, CONF_SPEED, CONF_PITCH,
       CONF_GAIN, CONF_PROFILES, CONF_TEXT_TYPE >>

\* texttospeech.SsmlVoiceGender.__members__ : member name -> member
SsmlVoiceGender ==
    (<<"S","S","M","L","_","V","O","I","C","E","_","G","E","N","D","E","R","_","U","N","S","P","E","C","I","F","I","E","D">>
        :> "SsmlVoiceGender.SSML_VOICE_GENDER_UNSPECIFIED")
    @@ (<<"M","A","L","E">> :> "SsmlVoiceGender.MALE")
    @@ (<<"F","E","M","A","L","E">> :> "SsmlVoiceGender.FEMALE")
    @@ (<<"N","E","U","T","R","A","L">> :> "SsmlVoiceGender.NEUTRAL")

\* texttospeech.AudioEncoding.__members__ : member name -> member
AudioEncoding ==
    (<<"A","U","D","I","O","_","E","N","C","O","D","I","N","G","_","U","N","S","P","E","C","I","F","I","E","D">>
        :> "AudioEncoding.AUDIO_ENCODING_UNSPECIFIED")
    @@ (<<"L","I","N","E","A","R","1","6">> :> "AudioEncoding.LINEAR16")
    @@ (<<"M","P","3">> :> "AudioEncoding.MP3")
    @@ (<<"O","G","G","_","O","P","U","S">> :> "AudioEncoding.OGG_OPUS")
    @@ (<<"M","U","L","A","W">> :> "AudioEncoding.MULAW")
    @@ (<<"A","L","A","W">> :> "AudioEncoding.ALAW")

\* Python's None
None == "None"

----------------------------------------------------------------------------
(* voluptuous validators and the helpers of config_validation *)

AllDigits(s) == \A i \in 1..Len(s) : s[i] \in DigitSet

RECURSIVE DigitsValue(_)
DigitsValue(s) ==
    IF s = <<>> THEN 0
    ELSE 10 * DigitsValue(SubSeq(s, 1, Len(s) - 1)) + DigitValue[s[Len(s)]]

\* a lower-cased numeral without its sign, and whether the sign is minus
Unsigned(low) == IF Len(low) > 0 /\ low[1] \in {"-", "+"} THEN Tail(low) ELSE low

IsNegative(low) == Len(low) > 0 /\ low[1] = "-"

\* where the decimal point of a numeral is: past its end when it has none
DotAt(body) ==
    IF \E i \in 1..Len(body) : body[i] = "."
    THEN CHOOSE i \in 1..Len(body) : body[i] = "."
    ELSE Len(body) + 1

IntPart(body) == SubSeq(body, 1, DotAt(body) - 1)

FracPart(body) == SubSeq(body, DotAt(body) + 1, Len(body))

\* digits with at most one point and at least one digit: "12", "1.5", ".5", "3."
IsDecimal(body) ==
    /\ Cardinality({i \in 1..Len(body) : body[i] = "."}) <= 1
    /\ AllDigits(IntPart(body)) /\ AllDigits(FracPart(body))
    /\ Len(IntPart(body)) + Len(FracPart(body)) > 0

\* the value of a decimal in hundredths, the model's resolution
Hundredths(body) ==
    100 * DigitsValue(IntPart(body)) + DigitsValue(Slice(FracPart(body) \o <<"0","0">>, 2))

ParseUnsigned(body, negative) ==
    IF body = <<"n","a","n">> THEN Valid(NaN)
    ELSE IF body \in {<<"i","n","f">>, <<"i","n","f","i","n","i","t","y">>}
         THEN Valid(IF negative THEN NegInf ELSE PosInf)
    ELSE IF IsDecimal(body)
         THEN Valid(Fin(IF negative THEN 0 - Hundredths(body) ELSE Hundredths(body)))
    ELSE Invalid

\* float(s) for a str: nan, inf, infinity and signed decimals, in any case of
\* letters; anything else is a ValueError
ParseFloat(s) == ParseUnsigned(Unsigned(StrLower(s)), IsNegative(s))

\* vol.Coerce(float): float(v), a ValueError or TypeError becomes vol.Invalid
CoerceFloat(value) ==
    IF value.k = "float" THEN Valid(value.f)
    ELSE IF value.k = "str" THEN ParseFloat(value.s)
    ELSE Invalid

\* vol.Clamp(min, max): two comparisons, each replacing v by the bound
Clamp(v, min, max) ==
    LET lo == IF FloatLess(v, Fin(min)) THEN Fin(min) ELSE v
    IN  IF FloatGreater(lo, Fin(max)) THEN Fin(max) ELSE lo

\* vol.All(vol.Coerce(float), vol.Clamp(min, max))
CoerceClamp(value, min, max) ==
    LET c == CoerceFloat(value)
    IN  IF c.ok THEN Valid(PyFloat(Clamp(c.v, min, max))) ELSE Invalid

\* vol.In(container), for a str v and a container of str
In(v, container) == IF v \in container THEN Valid(PyStr(v)) ELSE Invalid

\* LANG_REGEX, the strings it describes: [a-z]{2,3}-[A-Z]{2} or nothing
LANG_REGEX(s) ==
    \/ s = <<>>
    \/ \E n \in {2, 3} :
          /\ Len(s) = n + 3
          /\ \A i \in 1..n : s[i] \in LowerSet
          /\ s[n + 1] = "-"
          /\ s[n + 2] \in UpperSet /\ s[n + 3] \in UpperSet

\* VOICE_REGEX, the strings it describes: [a-z]{2,3}-[A-Z]{2}-.*-[A-Z] or
\* nothing
VOICE_REGEX(s) ==
    \/ s = <<>>
    \/ \E n \in {2, 3} :
          /\ Len(s) >= n + 6
          /\ \A i \in 1..n : s[i] \in LowerSet
          /\ s[n + 1] = "-"
          /\ s[n + 2] \in UpperSet /\ s[n + 3] \in UpperSet
          /\ s[n + 4] = "-"
          /\ s[Len(s) - 1] = "-"
          /\ s[Len(s)] \in UpperSet

\* the strings a regular expression of this module describes
Describes(regex, s) ==
    CASE regex = "LANG_REGEX"  -> LANG_REGEX(s)
      [] regex = "VOICE_REGEX" -> VOICE_REGEX(s)

\* cv.matches_regex(regex): a str that the regex describes
cv_matches_regex(regex, value) ==
    IF value.k # "str" THEN Invalid
    ELSE IF Describes(regex, value.s) THEN Valid(value) ELSE Invalid

\* cv.ensure_list: None is [], a list is itself, anything else is [value]
cv_ensure_list(value) ==
    IF value.k = "None" THEN <<>>
    ELSE IF value.k = "list" THEN value.l
    ELSE <<value>>

\* cv.string
cv_string(value) == IF value.k = "str" THEN Valid(value) ELSE Invalid

\* vol.All(vol.Upper, vol.In(SsmlVoiceGender.__members__)); vol.Upper is
\* str(v).upper(), and str() of a value that is no str names no member
GENDER_SCHEMA(value) ==
    IF value.k = "str" THEN In(StrUpper(value.s), DOMAIN SsmlVoiceGender) ELSE Invalid

VOICE_SCHEMA(value) == cv_matches_regex("VOICE_REGEX", value)

SCHEMA_ENCODING(value) ==
    IF value.k = "str" THEN In(StrUpper(value.s), DOMAIN AudioEncoding) ELSE Invalid

SPEED_SCHEMA(value) == CoerceClamp(value, MIN_SPEED, MAX_SPEED)

PITCH_SCHEMA(value) == CoerceClamp(value, MIN_PITCH, MAX_PITCH)

GAIN_SCHEMA(value) == CoerceClamp(value, MIN_GAIN, MAX_GAIN)

\* vol.All(cv.ensure_list, [vol.In(SUPPORTED_PROFILES)]): a new list of the
\* validated elements
PROFILES_SCHEMA(value) ==
    LET l == cv_ensure_list(value)
    IN  IF \A i \in 1..Len(l) : l[i].k = "str" /\ l[i].s \in Range(SUPPORTED_PROFILES)
        THEN Valid(PyList([i \in 1..Len(l) |-> l[i]]))
        ELSE Invalid

TEXT_TYPE_SCHEMA(value) ==
    IF value.k = "str" THEN In(StrLower(value.s), Range(SUPPORTED_TEXT_TYPES)) ELSE Invalid

\* the value schema of each key of options_schema and of PLATFORM_SCHEMA
KeySchema(key, value) ==
    CASE key = CONF_LANG      -> cv_matches_regex("LANG_REGEX", value)
      [] key = CONF_GENDER    -> GENDER_SCHEMA(value)
      [] key = CONF_VOICE     -> VOICE_SCHEMA(value)
      [] key = CONF_ENCODING  -> SCHEMA_ENCODING(value)
      [] key = CONF_SPEED     -> SPEED_SCHEMA(value)
      [] key = CONF_PITCH     -> PITCH_SCHEMA(value)
      [] key = CONF_GAIN      -> GAIN_SCHEMA(value)
      [] key = CONF_PROFILES  -> PROFILES_SCHEMA(value)
      [] key = CONF_TEXT_TYPE -> TEXT_TYPE_SCHEMA(value)

\* vol.Schema({vol.Optional(key, default=...): schema, ...}) applied to data:
\* a key the schema does not name is rejected, a missing key takes its
\* default, and every value, a default too, goes through its key's schema
MappingSchema(keys, defaults, data) ==
    LET merged == [k \in keys |-> IF k \in DOMAIN data THEN data[k] ELSE defaults[k]]
        out    == [k \in keys |-> KeySchema(k, merged[k])]
    IN  IF \E k \in DOMAIN data : k \notin keys THEN Invalid
        ELSE IF \E k \in keys : ~out[k].ok THEN Invalid
        ELSE Valid([k \in keys |-> out[k].v])

\* the keys of PLATFORM_SCHEMA that this platform adds
PlatformKeys ==
    {CONF_LANG, CONF_GENDER, CONF_VOICE, CONF_ENCODING, CONF_SPEED, CONF_PITCH,
     CONF_GAIN, CONF_PROFILES, CONF_TEXT_TYPE}

PlatformDefaults ==
    [k \in PlatformKeys |->
        CASE k = CONF_LANG      -> PyStr(DEFAULT_LANG)
          [] k = CONF_GENDER    -> PyStr(DEFAULT_GENDER)
          [] k = CONF_VOICE     -> PyStr(DEFAULT_VOICE)
          [] k = CONF_ENCODING  -> PyStr(DEFAULT_ENCODING)
          [] k = CONF_SPEED     -> PyFloat(Fin(DEFAULT_SPEED))
          [] k = CONF_PITCH     -> PyFloat(Fin(DEFAULT_PITCH))
          [] k = CONF_GAIN      -> PyFloat(Fin(DEFAULT_GAIN))
          [] k = CONF_PROFILES  -> PyList(<<>>)
          [] k = CONF_TEXT_TYPE -> PyStr(DEFAULT_TEXT_TYPE)]

\* PLATFORM_SCHEMA applied to the platform's configuration block: key_file is
\* optional without a default, the other keys as in MappingSchema
PLATFORM_SCHEMA(raw) ==
    LET rest == MappingSchema(PlatformKeys, PlatformDefaults,
                              [k \in DOMAIN raw \ {CONF_KEY_FILE} |-> raw[k]])
    IN  IF ~rest.ok THEN Invalid
        ELSE IF CONF_KEY_FILE \notin DOMAIN raw THEN rest
        ELSE IF ~cv_string(raw[CONF_KEY_FILE]).ok THEN Invalid
        ELSE Valid((CONF_KEY_FILE :> raw[CONF_KEY_FILE]) @@ rest.v)

----------------------------------------------------------------------------
(* Bounds and the inputs the environment supplies *)

\* concurrent synthesis calls
MaxCalls == 2

\* keys in one option override map of OptionMaps
MaxOverrides == 2

Calls == 1..MaxCalls

\* the host's configuration directory
ConfigDir == <<"/","c","f","g">>

KeyFile == <<"k",".","j","s","o","n">>

en_US == <<"e","n","-","U","S">>
en_GB == <<"e","n","-","G","B">>
fil_PH == <<"f","i","l","-","P","H">>
de_DE == <<"d","e","-","D","E">>

en_US_Wavenet_D == <<"e","n","-","U","S","-","W","a","v","e","n","e","t","-","D">>
en_US_Standard_B == <<"e","n","-","U","S","-","S","t","a","n","d","a","r","d","-","B">>
en_GB_Standard_A == <<"e","n","-","G","B","-","S","t","a","n","d","a","r","d","-","A">>
fil_PH_Standard_A == <<"f","i","l","-","P","H","-","S","t","a","n","d","a","r","d","-","A">>

handset == SUPPORTED_PROFILES[2]
telephony == SUPPORTED_PROFILES[8]

\* configuration blocks as the user writes them, before PLATFORM_SCHEMA
RawConfigs ==
    { [k \in {} |-> PyNone],
      [key_file |-> PyStr(KeyFile), voice |-> PyStr(en_GB_Standard_A),
       gender |-> PyStr(<<"f","e","m","a","l","e">>), speed |-> PyStr(<<"9",".","5">>)],
      [key_file |-> PyStr(<<>>), language |-> PyStr(fil_PH),
       encoding |-> PyStr(<<"o","g","g","_","o","p","u","s">>),
       text_type |-> PyStr(<<"S","S","M","L">>), profiles |-> PyStr(handset),
       pitch |-> PyFloat(Fin(-3000))] }

\* what the file system may hold
FileSystems == { {}, {ConfigDir \o <<"/">> \o KeyFile} }

\* what the vendor's list_voices may report: name and first language code
VendorVoices ==
    { << [name |-> en_US_Wavenet_D, language_code |-> en_US],
         [name |-> en_GB_Standard_A, language_code |-> en_GB],
         [name |-> fil_PH_Standard_A, language_code |-> fil_PH],
         [name |-> en_US_Standard_B, language_code |-> en_US] >> }

\* languages a synthesis call may ask for
Languages == {en_US, en_GB, fil_PH}

\* languages a voice query may ask for
QueryLanguages == {en_US, de_DE}

Messages == {"hello"}

\* audio payloads the vendor may answer with
AudioContents == {"audio-1", "audio-2"}

\* override values per option key; "volume" is a key the schema does not name
OverrideValues ==
    [gender    |-> {PyStr(<<"m","a","l","e">>), PyStr(<<"L","O","U","D">>)},
     voice     |-> {PyStr(en_GB_Standard_A), PyStr(fil_PH_Standard_A),
                    PyStr(<<>>), PyStr(<<"b","o","b">>)},
     encoding  |-> {PyStr(<<"o","g","g","_","o","p","u","s">>),
                    PyStr(<<"L","i","n","e","a","r","1","6">>),
                    PyStr(<<"F","L","A","C">>)},
     speed     |-> {PyFloat(Fin(10)), PyFloat(Fin(150)), PyStr(<<"9",".","5">>),
                    PyStr(<<"f","a","s","t">>), PyFloat(NaN)},
     pitch     |-> {PyStr(<<"-","3","0">>), PyFloat(Fin(500))},
     gain      |-> {PyFloat(PosInf), PyFloat(Fin(-9700))},
     profiles  |-> {PyStr(telephony), PyList(<<PyStr(handset), PyStr(telephony)>>),
                    PyList(<<PyStr(<<"b","o","o","m">>)>>)},
     text_type |-> {PyStr(<<"S","S","M","L">>), PyStr(<<"h","t","m","l">>)},
     volume    |-> {PyFloat(Fin(100))}]

\* the override maps with at most n keys
OptionMaps(n) ==
    UNION { {f \in [keys -> UNION {OverrideValues[k] : k \in keys}] :
                \A k \in keys : f[k] \in OverrideValues[k]} :
            keys \in {K \in SUBSET DOMAIN OverrideValues : Cardinality(K) <= n} }

\* the inputs (language, options) of the calls that run concurrently
ConcurrentInputs ==
    { [language |-> en_US, options |-> [k \in {} |-> PyNone]],
      [language |-> en_US, options |-> [voice |-> PyStr(en_GB_Standard_A)]],
      [language |-> fil_PH, options |-> [encoding |-> PyStr(<<"w","a","v">>)]],
      [language |-> en_GB, options |-> [encoding |-> PyStr(<<"a","l","a","w">>),
                                        speed |-> PyFloat(Fin(900))]] }

\* the inputs (language, options) of a single call
OptionInputs ==
    { [language |-> l, options |-> o] : l \in Languages, o \in OptionMaps(MaxOverrides) }

\* the fixed timeout of the synthesis call, seconds
SYNTHESIZE_TIMEOUT == 10

\* how long the vendor may take to answer, seconds
Latencies == {1, SYNTHESIZE_TIMEOUT + 1}

----------------------------------------------------------------------------
(* State *)

VARIABLES
    files,          \* the regular files on disk
    config,         \* the validated configuration block given to setup
    engine_pc,      \* async_get_engine: "start", "list_voices", "returned", "raised"
    client,         \* the TextToSpeechAsyncClient constructed by setup
    list_voices,    \* calls made to the vendor's list_voices endpoint
    provider,       \* the GoogleCloudTTSProvider setup returned, its fields
    calls,          \* the invocations of async_get_tts_audio, per call slot
    voices_result   \* the last async_get_supported_voices call and its result

vars == <<files, config, engine_pc, client, list_voices, provider, calls, voices_result>>

NoClient == [source |-> "none", key_file |-> <<>>]

NoProvider == [none |-> TRUE]

NoOptions == [none |-> TRUE]

NoRequest == [none |-> TRUE]

NoQuery == [none |-> TRUE]

NotReturned == <<>>

\* the None that async_get_supported_voices returns
NoVoices == [none |-> TRUE, list |-> <<>>]

IdleCall ==
    [pc |-> "idle", message |-> None, language |-> <<>>, options |-> [k \in {} |-> PyNone],
     resolved |-> NoOptions, encoding |-> None, request |-> NoRequest,
     synthesize_speech |-> 0,
     response |-> None, result |-> NotReturned]

Init ==
    /\ files \in FileSystems
    /\ config \in {PLATFORM_SCHEMA(raw).v : raw \in {r \in RawConfigs : PLATFORM_SCHEMA(r).ok}}
    /\ engine_pc = "start"
    /\ client = NoClient
    /\ list_voices = 0
    /\ provider = NoProvider
    /\ calls = [c \in Calls |-> IdleCall]
    /\ voices_result = NoQuery

----------------------------------------------------------------------------
(* Setup: async_get_engine *)

\* hass.config.path(path): the path joined to the configuration directory
hass_config_path(path) ==
    IF Len(path) > 0 /\ path[1] = "/" THEN path ELSE ConfigDir \o <<"/">> \o path

\* os.path.isfile
isfile(path) == path \in files

\* GoogleCloudTTSProvider.__init__
GoogleCloudTTSProvider(cl, voices, language, gender, voice, encoding, speed, pitch, gain, profiles, text_type) ==
    [name |-> "Google Cloud TTS", _client |-> cl, _voices |-> voices,
     _language |-> language, _gender |-> gender,
     _voice |-> voice, _encoding |-> encoding, _speed |-> speed, _pitch |-> pitch,
     _gain |-> gain, _profiles |-> profiles, _text_type |-> text_type]

\* config.get(CONF_KEY_FILE), resolved when it is a non-empty string
ResolvedKeyFile ==
    IF CONF_KEY_FILE \in DOMAIN config /\ config[CONF_KEY_FILE].s # <<>>
    THEN hass_config_path(config[CONF_KEY_FILE].s)
    ELSE <<>>

\* the missing key file is logged but setup goes on: the return is lost
GetEngineKeyFileMissing_NoReturn ==
    /\ engine_pc = "start"
    /\ ResolvedKeyFile # <<>> /\ ~isfile(ResolvedKeyFile)
    /\ client' = [source |-> "from_service_account_json", key_file |-> ResolvedKeyFile]
    /\ list_voices' = list_voices + 1
    /\ engine_pc' = "list_voices"
    /\ UNCHANGED <<files, config, provider, calls, voices_result>>

\* lines 107-111: the key file the configuration names is not on disk
GetEngineKeyFileMissing ==
    /\ engine_pc = "start"
    /\ ResolvedKeyFile # <<>> /\ ~isfile(ResolvedKeyFile)
    /\ engine_pc' = "returned"
    /\ UNCHANGED <<files, config, client, list_voices, provider, calls, voices_result>>

\* lines 107-119: the client is constructed, from the key file or from the
\* ambient credentials, and list_voices is called
GetEngineCreateClient ==
    /\ engine_pc = "start"
    /\ ResolvedKeyFile # <<>> => isfile(ResolvedKeyFile)
    /\ client' = IF ResolvedKeyFile # <<>>
                 THEN [source |-> "from_service_account_json", key_file |-> ResolvedKeyFile]
                 ELSE [source |-> "default", key_file |-> <<>>]
    /\ list_voices' = list_voices + 1
    /\ engine_pc' = "list_voices"
    /\ UNCHANGED <<files, config, provider, calls, voices_result>>

\* lines 112-117: the constructor of the client raises (a key file that is no
\* service-account JSON, no ambient credentials); nothing catches it
GetEngineCreateClientRaises ==
    /\ engine_pc = "start"
    /\ ResolvedKeyFile # <<>> => isfile(ResolvedKeyFile)
    /\ engine_pc' = "raised"
    /\ UNCHANGED <<files, config, client, list_voices, provider, calls, voices_result>>

\* helpers.async_tts_voices: the catalog built from the vendor's answer, each
\* voice under its first language code, in the vendor's order
async_tts_voices(reported) ==
    [lang \in {reported[i].language_code : i \in 1..Len(reported)} |->
        LET OfLang(v) == v.language_code = lang
            sel == SelectSeq(reported, OfLang)
        IN  [i \in 1..Len(sel) |-> sel[i].name]]

\* lines 119, 123-136: list_voices answers and the provider is constructed
GetEngineReturnsProvider(reported) ==
    /\ engine_pc = "list_voices"
    /\ provider' = GoogleCloudTTSProvider(client, async_tts_voices(reported),
                       config[CONF_LANG], config[CONF_GENDER], config[CONF_VOICE],
                       config[CONF_ENCODING], config[CONF_SPEED], config[CONF_PITCH],
                       config[CONF_GAIN], config[CONF_PROFILES], config[CONF_TEXT_TYPE])
    /\ engine_pc' = "returned"
    /\ UNCHANGED <<files, config, client, list_voices, calls, voices_result>>

\* lines 120-122: list_voices raises GoogleAPIError
GetEngineListVoicesError ==
    /\ engine_pc = "list_voices"
    /\ engine_pc' = "returned"
    /\ UNCHANGED <<files, config, client, list_voices, provider, calls, voices_result>>

----------------------------------------------------------------------------
(* The provider's operations *)

OptionKeys == Range(SUPPORTED_OPTIONS)

\* default_options with the defaults of pitch and gain taken from each other
default_options_Swapped(p) ==
    [k \in OptionKeys |->
        CASE k = CONF_GENDER    -> p._gender
          [] k = CONF_VOICE     -> p._voice
          [] k = CONF_ENCODING  -> p._encoding
          [] k = CONF_SPEED     -> p._speed
          [] k = CONF_PITCH     -> p._gain
          [] k = CONF_GAIN      -> p._pitch
          [] k = CONF_PROFILES  -> p._profiles
          [] k = CONF_TEXT_TYPE -> p._text_type]

\* the defaults of options_schema, lines 212-219: the provider's fields
default_options(p) ==
    [k \in OptionKeys |->
        CASE k = CONF_GENDER    -> p._gender
          [] k = CONF_VOICE     -> p._voice
          [] k = CONF_ENCODING  -> p._encoding
          [] k = CONF_SPEED     -> p._speed
          [] k = CONF_PITCH     -> p._pitch
          [] k = CONF_GAIN      -> p._gain
          [] k = CONF_PROFILES  -> p._profiles
          [] k = CONF_TEXT_TYPE -> p._text_type]

\* options_schema that drops the keys it does not name (extra=REMOVE_EXTRA)
options_schema_RemoveExtra(p, options) ==
    MappingSchema(OptionKeys, default_options(p),
                  [k \in DOMAIN options \cap OptionKeys |-> options[k]])

\* lines 210-223: options_schema(options)
options_schema(p, options) ==
    MappingSchema(OptionKeys, default_options(p), options)

\* lines 229-232: the gender of the request, None when a voice is named
RequestGender(options) ==
    IF options[CONF_VOICE].s # <<>> THEN None
    ELSE SsmlVoiceGender[options[CONF_GENDER].s]

\* lines 230-234: the language of the request
RequestLanguage(language, options) ==
    LET voice == options[CONF_VOICE].s
    IN  IF voice # <<>> /\ ~StartsWith(voice, language) THEN Slice(voice, 5)
        ELSE language

\* lines 228-250: the SynthesizeSpeechRequest
SynthesizeSpeechRequest(message, language, options) ==
    [input |-> [field |-> options[CONF_TEXT_TYPE].s, value |-> message],
     voice |-> [language_code |-> RequestLanguage(language, options),
                ssml_gender |-> RequestGender(options),
                name |-> options[CONF_VOICE].s],
     audio_config |-> [audio_encoding |-> AudioEncoding[options[CONF_ENCODING].s],
                       speaking_rate |-> options[CONF_SPEED],
                       pitch |-> options[CONF_PITCH],
                       volume_gain_db |-> options[CONF_GAIN],
                       effects_profile_id |-> options[CONF_PROFILES]]]

\* Extension without the branch for OGG_OPUS
Extension_NoOgg(encoding) ==
    IF encoding = AudioEncoding[<<"M","P","3">>] THEN "mp3" ELSE "wav"

\* lines 258-263: the extension of an encoding
Extension(encoding) ==
    IF encoding = AudioEncoding[<<"M","P","3">>] THEN "mp3"
    ELSE IF encoding = AudioEncoding[<<"O","G","G","_","O","P","U","S">>] THEN "ogg"
    ELSE "wav"

\* lines 208-253: async_get_tts_audio up to its await.  The options are
\* validated; invalid options end the call with (None, None), valid ones
\* build the request and issue synthesize_speech
GetTtsAudio(c, message, language, options) ==
    /\ provider # NoProvider
    /\ calls[c].pc = "idle"
    /\ \E validated \in {options_schema(provider, options)} :
        LET started == [IdleCall EXCEPT !.message = message, !.language = language,
                                        !.options = options]
        IN  calls' = [calls EXCEPT ![c] =
              IF ~validated.ok
              THEN [started EXCEPT !.pc = "done", !.result = <<None, None>>]
              ELSE [started EXCEPT
                       !.pc = "synthesize_speech",
                       !.resolved = validated.v,
                       !.encoding = AudioEncoding[validated.v[CONF_ENCODING].s],
                       !.request = SynthesizeSpeechRequest(message, language, validated.v),
                       !.synthesize_speech = @ + 1]]
    /\ UNCHANGED <<files, config, engine_pc, client, list_voices, provider, voices_result>>

\* lines 253, 258-265: synthesize_speech answers within the timeout
SynthesizeSpeechReturns(c, latency, audio_content) ==
    /\ calls[c].pc = "synthesize_speech"
    /\ latency <= SYNTHESIZE_TIMEOUT
    /\ calls' = [calls EXCEPT ![c] =
          [@ EXCEPT !.pc = "done",
                    !.response = audio_content,
                    !.result = <<Extension(calls[c].encoding), audio_content>>]]
    /\ UNCHANGED <<files, config, engine_pc, client, list_voices, provider, voices_result>>

\* the GoogleAPIError that ends a synthesize_speech call: the deadline when
\* the vendor takes longer than the timeout, else the vendor's error if any
SynthesizeError(latency, error) ==
    IF latency > SYNTHESIZE_TIMEOUT THEN "DeadlineExceeded" ELSE error

\* a failed synthesize_speech is issued again
SynthesizeSpeechRaises_Retry(c, latency, error) ==
    /\ calls[c].pc = "synthesize_speech"
    /\ calls' = [calls EXCEPT ![c] =
          [@ EXCEPT !.response = SynthesizeError(latency, error),
                    !.synthesize_speech = @ + 1]]
    /\ UNCHANGED <<files, config, engine_pc, client, list_voices, provider, voices_result>>

\* a failed synthesize_speech drops the voice catalog, to be fetched again
SynthesizeSpeechRaises_DropCatalog(c, latency, error) ==
    /\ calls[c].pc = "synthesize_speech"
    /\ calls' = [calls EXCEPT ![c] =
          [@ EXCEPT !.pc = "done",
                    !.response = SynthesizeError(latency, error),
                    !.result = <<None, None>>]]
    /\ provider' = [provider EXCEPT !._voices = [lang \in {} |-> <<>>]]
    /\ UNCHANGED <<files, config, engine_pc, client, list_voices, voices_result>>

\* lines 253-256: synthesize_speech raises GoogleAPIError
SynthesizeSpeechRaises(c, latency, error) ==
    /\ calls[c].pc = "synthesize_speech"
    /\ calls' = [calls EXCEPT ![c] =
          [@ EXCEPT !.pc = "done",
                    !.response = SynthesizeError(latency, error),
                    !.result = <<None, None>>]]
    /\ UNCHANGED <<files, config, engine_pc, client, list_voices, provider, voices_result>>

\* the host takes the result of a finished call; its locals are gone
ReleaseCall(c) ==
    /\ calls[c].pc = "done"
    /\ calls' = [calls EXCEPT ![c] = IdleCall]
    /\ UNCHANGED <<files, config, engine_pc, client, list_voices, provider, voices_result>>

\* async_get_supported_voices that returns an empty list, not None, for a
\* language the catalog does not know
async_get_supported_voices_EmptyList(p, language) ==
    LET voices == IF language \in DOMAIN p._voices THEN p._voices[language] ELSE <<>>
    IN  [none |-> FALSE,
         list |-> [i \in 1..Len(voices) |-> [voice_id |-> voices[i], name |-> voices[i]]]]

\* lines 201-206: None, or the list of Voice(voice, voice); dict.get gives
\* None for a language that is no key, and an empty list is as false as None
async_get_supported_voices(p, language) ==
    LET voices == IF language \in DOMAIN p._voices THEN p._voices[language] ELSE <<>>
    IN  IF voices = <<>> THEN NoVoices
        ELSE [none |-> FALSE,
              list |-> [i \in 1..Len(voices) |-> [voice_id |-> voices[i], name |-> voices[i]]]]

\* the host asks for the voices of a language
GetSupportedVoices(language) ==
    /\ provider # NoProvider
    /\ voices_result' = [language |-> language,
                         result |-> async_get_supported_voices(provider, language)]
    /\ UNCHANGED <<files, config, engine_pc, client, list_voices, provider, calls>>

----------------------------------------------------------------------------
(* Specifications *)

Setup ==
    \/ GetEngineKeyFileMissing
    \/ GetEngineCreateClient
    \/ GetEngineCreateClientRaises
    \/ \E reported \in VendorVoices : GetEngineReturnsProvider(reported)
    \/ GetEngineListVoicesError

Errors == {"ServiceUnavailable"}

\* the host calls async_get_tts_audio in a free call slot
CallStarts(c, inputs) ==
    /\ provider # NoProvider
    /\ calls[c].pc = "idle"
    /\ \E m \in Messages, in \in inputs : GetTtsAudio(c, m, in.language, in.options)

Completion(c) ==
    \/ \E latency \in Latencies, audio \in AudioContents :
          SynthesizeSpeechReturns(c, latency, audio)
    \/ \E latency \in Latencies, error \in Errors :
          SynthesizeSpeechRaises(c, latency, error)
    \/ ReleaseCall(c)

\* setup, then calls that overlap
Next ==
    \/ Setup
    \/ \E c \in Calls : CallStarts(c, ConcurrentInputs)
    \/ \E c \in Calls : Completion(c)
    \/ \E language \in QueryLanguages : GetSupportedVoices(language)

Spec == Init /\ [][Next]_vars

\* setup, then one call at a time over the option maps
NextOptions ==
    \/ Setup
    \/ CallStarts(1, OptionInputs)
    \/ Completion(1)

SpecOptions == Init /\ [][NextOptions]_vars

----------------------------------------------------------------------------
(* Claims *)

\* a call whose options passed validation: it built a request
Issued(c) == calls[c].request # NoRequest

Absence == <<None, None>>

\* the language tag at the head of a voice name: xx-XX or xxx-XX
VoiceLanguage(voice) ==
    LET dash == CHOOSE i \in 1..Len(voice) : voice[i] = "-" /\ \A j \in 1..(i - 1) : voice[j] # "-"
    IN  SubSeq(voice, 1, dash + 2)

\* C1: the voice-selection parameters of every issued request: with a voice
\* resolved, the request names the voice, carries no gender and carries the
\* language tag at the head of the voice name; with no voice resolved, the
\* requested language and the resolved gender pass through.
C1_VoiceSelection ==
    \A c \in Calls : Issued(c) =>
        LET voice == calls[c].resolved[CONF_VOICE].s
            sel   == calls[c].request.voice
        IN  IF voice # <<>>
            THEN /\ sel.name = voice
                 /\ sel.ssml_gender = None
                 /\ sel.language_code = VoiceLanguage(voice)
            ELSE /\ sel.name = <<>>
                 /\ sel.language_code = calls[c].language
                 /\ sel.ssml_gender = SsmlVoiceGender[calls[c].resolved[CONF_GENDER].s]

\* what C2 calls an override map that fails validation on some key
C2_FailsValidation(options) ==
    \E k \in DOMAIN options :
        LET value == options[k]
        IN  \/ k \notin OptionKeys
            \/ k = CONF_GENDER /\ StrUpper(value.s) \notin DOMAIN SsmlVoiceGender
            \/ k = CONF_ENCODING /\ StrUpper(value.s) \notin DOMAIN AudioEncoding
            \/ k = CONF_TEXT_TYPE /\ StrLower(value.s) \notin Range(SUPPORTED_TEXT_TYPES)
            \/ k = CONF_VOICE /\ ~VOICE_REGEX(value.s)
            \/ k = CONF_PROFILES /\
                  \E e \in Range(IF value.k = "list" THEN value.l ELSE <<value>>) :
                      e.s \notin Range(SUPPORTED_PROFILES)
            \/ k \in {CONF_SPEED, CONF_PITCH, CONF_GAIN} /\ value.k = "str"
                  /\ ~ParseFloat(value.s).ok

\* C2: a call whose override map fails validation on any key has returned
\* (None, None), built no request and never issued synthesize_speech.
C2_InvalidOptionsRejected ==
    \A c \in Calls :
        calls[c].pc # "idle" /\ C2_FailsValidation(calls[c].options) =>
            /\ calls[c].pc = "done"
            /\ calls[c].result = Absence
            /\ ~Issued(c)
            /\ calls[c].synthesize_speech = 0

C2_Witness ==
    \E c \in Calls :
        /\ calls[c].pc = "done"
        /\ CONF_GENDER \in DOMAIN calls[c].options
        /\ calls[c].options[CONF_GENDER] = PyStr(<<"L","O","U","D">>)
        /\ calls[c].result = Absence

\* C3: no failure raises to the host and none is retried: setup that has
\* ended has returned, with no engine unless list_voices answered, and a
\* synthesis call that failed has returned (None, None) after at most one
\* synthesize_speech.
C3_FailuresDegrade ==
    /\ engine_pc # "raised"
    /\ list_voices <= 1
    /\ \A c \in Calls :
          calls[c].pc = "done" /\ (~Issued(c) \/ calls[c].response \notin AudioContents) =>
              calls[c].result = Absence /\ calls[c].synthesize_speech <= 1

\* C4: every call issues synthesize_speech at most once, and a call whose
\* synthesize_speech ran past the timeout or raised a vendor error has
\* returned (None, None) having issued it exactly once.
C4_NoRetry ==
    \A c \in Calls :
        /\ calls[c].synthesize_speech <= 1
        /\ calls[c].pc = "done" /\ calls[c].response \in {"DeadlineExceeded"} \cup Errors =>
              calls[c].result = Absence /\ calls[c].synthesize_speech = 1

C4_Witness ==
    \E c, d \in Calls :
        /\ calls[c].pc = "done" /\ calls[c].response = "DeadlineExceeded"
        /\ calls[d].pc = "done" /\ calls[d].response \in Errors
        /\ calls[c].result = Absence /\ calls[d].result = Absence

\* the configuration names a key file that is not in the configuration
\* directory
C5_KeyFileMissing ==
    /\ CONF_KEY_FILE \in DOMAIN config
    /\ config[CONF_KEY_FILE].s # <<>>
    /\ (ConfigDir \o <<"/">> \o config[CONF_KEY_FILE].s) \notin files

\* C5: with a key file named and missing, setup that has acted has returned
\* no engine, constructed no client and never called list_voices.
C5_MissingKeyFileNoEngine ==
    C5_KeyFileMissing /\ engine_pc # "start" =>
        /\ engine_pc = "returned"
        /\ provider = NoProvider
        /\ client = NoClient
        /\ list_voices = 0

C5_Witness == C5_KeyFileMissing /\ engine_pc = "returned"

InRange(value, min, max) == value.f.cls = "fin" /\ min <= value.f.v /\ value.f.v <= max

\* C6: every issued request carries speed, pitch and gain within their
\* ranges (no numeric value is rejected, each is brought to the nearest
\* bound).
C6_RequestWithinRanges ==
    \A c \in Calls : Issued(c) =>
        /\ InRange(calls[c].request.audio_config.speaking_rate, MIN_SPEED, MAX_SPEED)
        /\ InRange(calls[c].request.audio_config.pitch, MIN_PITCH, MAX_PITCH)
        /\ InRange(calls[c].request.audio_config.volume_gain_db, MIN_GAIN, MAX_GAIN)

\* the provider's stored default of an option key
C7_StoredDefault(k) ==
    CASE k = CONF_GENDER    -> provider._gender
      [] k = CONF_VOICE     -> provider._voice
      [] k = CONF_ENCODING  -> provider._encoding
      [] k = CONF_SPEED     -> provider._speed
      [] k = CONF_PITCH     -> provider._pitch
      [] k = CONF_GAIN      -> provider._gain
      [] k = CONF_PROFILES  -> provider._profiles
      [] k = CONF_TEXT_TYPE -> provider._text_type

\* C7: in every call whose options passed validation, the effective value of
\* each recognized key is the normalized override when the key is in the
\* override map and the provider's stored default when it is not.
C7_OverrideElseDefault ==
    \A c \in Calls : Issued(c) =>
        \A k \in OptionKeys :
            calls[c].resolved[k] =
                IF k \in DOMAIN calls[c].options
                THEN KeySchema(k, calls[c].options[k]).v
                ELSE C7_StoredDefault(k)

C7_Witness ==
    \E c \in Calls :
        /\ Issued(c)
        /\ DOMAIN calls[c].options = {CONF_SPEED, CONF_TEXT_TYPE}
        /\ calls[c].options[CONF_SPEED] = PyStr(<<"9",".","5">>)
        /\ calls[c].resolved[CONF_SPEED] = PyFloat(Fin(MAX_SPEED))
        /\ calls[c].resolved[CONF_TEXT_TYPE] = PyStr(<<"s","s","m","l">>)
        /\ calls[c].resolved[CONF_GENDER] = PyStr(<<"F","E","M","A","L","E">>)
        /\ calls[c].resolved[CONF_VOICE] = PyStr(en_GB_Standard_A)

\* the fields of a call that are its own inputs
C8_Inputs(call) == <<call.message, call.language, call.options>>

\* what a step may do once the provider exists: it leaves the provider, the
\* client and the count of list_voices calls alone, it changes at most one
\* call, and a call that completes keeps its inputs and its request and
\* returns what its own request and its own response determine
C8_Step ==
    provider # NoProvider =>
        /\ provider' = provider
        /\ client' = client
        /\ list_voices' = list_voices
        /\ \A c, d \in Calls : c # d => calls'[c] = calls[c] \/ calls'[d] = calls[d]
        /\ \A c \in Calls :
              calls[c].pc = "synthesize_speech" /\ calls'[c].pc = "done" =>
                  /\ C8_Inputs(calls'[c]) = C8_Inputs(calls[c])
                  /\ calls'[c].request = calls[c].request
                  /\ calls'[c].result \in
                        {Absence} \cup {<<ext, calls'[c].response>> : ext \in {"mp3", "ogg", "wav"}}
                  /\ calls'[c].result = Absence <=> calls'[c].response \notin AudioContents

\* finished calls with the same inputs and the same response have the same
\* result, whatever else ran or failed meanwhile
C8_SameInputsSameResult ==
    \A c, d \in Calls :
        /\ calls[c].pc = "done" /\ calls[d].pc = "done"
        /\ C8_Inputs(calls[c]) = C8_Inputs(calls[d])
        /\ calls[c].response = calls[d].response
        => calls[c].result = calls[d].result /\ calls[c].request = calls[d].request

\* C8: after setup the provider's defaults and catalog never change,
\* list_voices is never called again, and a call's result depends only on
\* its own inputs and its own response, whatever the other calls do.
C8_ReadOnlyAfterSetup == []C8_SameInputsSameResult /\ [][C8_Step]_vars

C8_Witness ==
    \E c, d \in Calls :
        /\ calls[c].pc = "done" /\ calls[c].response = "DeadlineExceeded"
        /\ calls[d].pc = "done" /\ calls[d].response \in AudioContents
        /\ calls[d].result = <<"mp3", calls[d].response>>
        /\ list_voices = 1

\* the answer to the last voice query is the catalog's list for a language
\* the catalog knows, one Voice per name in the catalog's order, and None
\* for any other language
C9_Answer ==
    voices_result # NoQuery =>
        LET language == voices_result.language
            result   == voices_result.result
        IN  IF language \in DOMAIN provider._voices
            THEN /\ ~result.none
                 /\ Len(result.list) = Len(provider._voices[language])
                 /\ \A i \in 1..Len(result.list) :
                       /\ result.list[i].voice_id = provider._voices[language][i]
                       /\ result.list[i].name = provider._voices[language][i]
            ELSE result = NoVoices

\* C9: async_get_supported_voices returns the catalog's voices of a known
\* language and None exactly for an unknown one, and a query changes
\* nothing but its own answer.
C9_SupportedVoices ==
    /\ []C9_Answer
    /\ [][voices_result' # voices_result =>
            UNCHANGED <<files, config, engine_pc, client, list_voices, provider, calls>>]_vars

C9_Witness ==
    /\ voices_result # NoQuery
    /\ voices_result.language = en_US
    /\ voices_result.result.list =
          <<[voice_id |-> en_US_Wavenet_D, name |-> en_US_Wavenet_D],
            [voice_id |-> en_US_Standard_B, name |-> en_US_Standard_B]>>

\* C10: a successful call returns the audio of its own response with the
\* extension of the encoding its request carries: mp3 for MP3, ogg for
\* OGG_OPUS, wav for any other member; that encoding is the resolved one.
C10_ExtensionFromEncoding ==
    \A c \in Calls :
        calls[c].pc = "done" /\ Issued(c) /\ calls[c].response \in AudioContents =>
            LET sent == calls[c].request.audio_config.audio_encoding
            IN  /\ sent = AudioEncoding[calls[c].resolved[CONF_ENCODING].s]
                /\ calls[c].result[2] = calls[c].response
                /\ calls[c].result[1] =
                      CASE sent = "AudioEncoding.MP3"      -> "mp3"
                        [] sent = "AudioEncoding.OGG_OPUS" -> "ogg"
                        [] OTHER                           -> "wav"

C10_Witness ==
    \E c \in Calls :
        /\ calls[c].pc = "done"
        /\ CONF_ENCODING \in DOMAIN calls[c].options
        /\ calls[c].options[CONF_ENCODING] = PyStr(<<"L","i","n","e","a","r","1","6">>)
        /\ calls[c].result = <<"wav", "audio-2">>

====
